---- MODULE Spec2Model ----
(***************************************************************************)
(* Model of src/main.py: the Codex code generator command-line client.     *)
(*                                                                         *)
(* Text is modelled in two forms.  A line typed on the terminal or held in *)
(* an environment variable is a sequence of one-character strings, so that *)
(* str.strip(), str.lower(), int() and float() act character by character. *)
(* Text the program stores or sends is a TLA+ string, so that templates    *)
(* are built by literal concatenation.  Str flattens the first form into   *)
(* the second.  Floats are kept in thousandths (0.7 is 700).               *)
(***************************************************************************)
EXTENDS Integers, Sequences, FiniteSets, TLC

VARIABLES
    sys_argv,     \* the command line, program name first
    env,          \* the process environment: a function from the set names
    pc,           \* where the process is
    generator,    \* the loaded CodexGenerator (its configuration fields)
    command,      \* interactive_mode local: the trimmed, lower-cased token
    prompt,       \* local `prompt` (direct_mode argument / interactive line 178)
    lines,        \* interactive_mode local: the collected-lines buffer
    request,      \* the chat-completion request in flight
    response,     \* what the remote call last answered
    inFlight,     \* number of requests in flight
    netCalls,     \* number of network calls issued by the process
    cmdCalls,     \* number of network calls issued since the last command read
    result,       \* local `result`
    printed,      \* the last text written to standard output
    inputLog      \* the raw terminal lines consumed since the last command prompt

vars == <<sys_argv, env, pc, generator, command, prompt, lines, request,
          response, inFlight, netCalls, cmdCalls, result, printed, inputLog>>

----------------------------------------------------------------------------
(* Bounds of the model *)

MaxLines == 2    \* body lines collected in one multi-line command
MaxCalls == 2    \* network calls issued in one run of the interactive loop

----------------------------------------------------------------------------
(* Python str operations *)

Whitespace == {" ", "\t"}

UpperSeq == <<"A","B","C","D","E","F","G","H","I","J","K","L","M",
              "N","O","P","Q","R","S","T","U","V","W","X","Y","Z">>
LowerSeq == <<"a","b","c","d","e","f","g","h","i","j","k","l","m",
              "n","o","p","q","r","s","t","u","v","w","x","y","z">>

RECURSIVE Str(_)
Str(s) == IF s = <<>> THEN "" ELSE Head(s) \o Str(Tail(s))

RECURSIVE lstrip(_)
lstrip(s) == IF s # <<>> /\ Head(s) \in Whitespace THEN lstrip(Tail(s)) ELSE s

RECURSIVE rstrip(_)
rstrip(s) ==
    IF s # <<>> /\ s[Len(s)] \in Whitespace
    THEN rstrip(SubSeq(s, 1, Len(s) - 1))
    ELSE s

strip(s) == rstrip(lstrip(s))

lower_char(c) ==
    IF \E i \in 1..Len(UpperSeq) : UpperSeq[i] = c
    THEN LowerSeq[CHOOSE i \in 1..Len(UpperSeq) : UpperSeq[i] = c]
    ELSE c

lower(s) == [i \in 1..Len(s) |-> lower_char(s[i])]

\* sep.join(parts) on flattened strings
RECURSIVE join(_, _)
join(sep, parts) ==
    IF parts = <<>> THEN ""
    ELSE IF Len(parts) = 1 THEN parts[1]
    ELSE parts[1] \o sep \o join(sep, Tail(parts))

----------------------------------------------------------------------------
(* int() and float() of a str: the value, or ValueError *)

DigitSeq == <<"0","1","2","3","4","5","6","7","8","9">>
Digits == {DigitSeq[i] : i \in 1..Len(DigitSeq)}
digit_value(c) == (CHOOSE i \in 1..Len(DigitSeq) : DigitSeq[i] = c) - 1

all_digits(s) == \A i \in 1..Len(s) : s[i] \in Digits

RECURSIVE digits_value(_)
digits_value(s) ==
    IF s = <<>> THEN 0
    ELSE 10 * digits_value(SubSeq(s, 1, Len(s) - 1)) + digit_value(s[Len(s)])

unsigned(t) == IF t # <<>> /\ t[1] \in {"+", "-"} THEN Tail(t) ELSE t
sign(t) == IF t # <<>> /\ t[1] = "-" THEN -1 ELSE 1

Raised(msg)   == [raised |-> TRUE, msg |-> msg, val |-> 0]
Returned(val) == [raised |-> FALSE, msg |-> "", val |-> val]

\* Mutant of int: a value that does not parse falls back to the default
int_or_default(s) ==
    LET t == strip(s)
        u == unsigned(t)
    IN IF u # <<>> /\ all_digits(u)
       THEN Returned(sign(t) * digits_value(u))
       ELSE Returned(1000)

\* int(str): surrounding whitespace, an optional sign, one or more digits
\* (digit-group underscores are not among the characters drawn in EnvCases)
int(s) ==
    LET t == strip(s)
        u == unsigned(t)
    IN IF u # <<>> /\ all_digits(u)
       THEN Returned(sign(t) * digits_value(u))
       ELSE Raised("invalid literal for int() with base 10: '" \o Str(s) \o "'")

dot_at(u) == CHOOSE i \in 1..Len(u) : u[i] = "."

\* the fraction digits f as thousandths (digits after the third are dropped)
frac_thousandths(f) ==
    LET g == f \o <<"0","0","0">>
    IN digits_value(SubSeq(g, 1, 3))

\* float(str) for decimal literals: surrounding whitespace, an optional sign,
\* digits with at most one point and at least one digit (exponents, inf and
\* nan are not among the values drawn in EnvCases)
float(s) ==
    LET t == strip(s)
        u == unsigned(t)
        bad == Raised("could not convert string to float: '" \o Str(s) \o "'")
    IN IF u # <<>> /\ all_digits(u)
       THEN Returned(sign(t) * 1000 * digits_value(u))
       ELSE IF \E i \in 1..Len(u) : u[i] = "."
       THEN LET i == dot_at(u)
                a == SubSeq(u, 1, i - 1)
                f == SubSeq(u, i + 1, Len(u))
            IN IF all_digits(a) /\ all_digits(f) /\ Len(a) + Len(f) > 0
               THEN Returned(sign(t) * (1000 * digits_value(a) + frac_thousandths(f)))
               ELSE bad
       ELSE bad

----------------------------------------------------------------------------
(* CodexGenerator.__init__ *)

DefaultModel == "gpt-4"
DefaultMaxTokens == 1000
DefaultTemperature == 700

MissingKeyMessage ==
    "OpenAI API key not found. Please set OPENAI_API_KEY in your .env file.\n"
    \o "Get your API key from: https://platform.openai.com/api-keys"

\* Mutant of unset_or_empty: only an absent variable counts as missing
unset_only(e, name) == name \notin DOMAIN e

\* os.getenv(name) is None or ''
unset_or_empty(e, name) == name \notin DOMAIN e \/ e[name] = <<>>

NoGenerator == [api_key |-> "", model |-> "", max_tokens |-> 0, temperature |-> 0]

\* The constructor's outcome: ValueError with its message, or the object.
CodexGenerator_init(e) ==
    LET max_tokens == IF "MAX_TOKENS" \in DOMAIN e
                      THEN int(e["MAX_TOKENS"])
                      ELSE Returned(DefaultMaxTokens)
        temperature == IF "TEMPERATURE" \in DOMAIN e
                       THEN float(e["TEMPERATURE"])
                       ELSE Returned(DefaultTemperature)
    IN IF unset_or_empty(e, "OPENAI_API_KEY")
       THEN [raised |-> TRUE, msg |-> MissingKeyMessage, self |-> NoGenerator]
       ELSE IF max_tokens.raised
       THEN [raised |-> TRUE, msg |-> max_tokens.msg, self |-> NoGenerator]
       ELSE IF temperature.raised
       THEN [raised |-> TRUE, msg |-> temperature.msg, self |-> NoGenerator]
       ELSE [raised |-> FALSE, msg |-> "",
             self |-> [api_key |-> Str(e["OPENAI_API_KEY"]),
                       model |-> IF "MODEL_NAME" \in DOMAIN e
                                 THEN Str(e["MODEL_NAME"])
                                 ELSE DefaultModel,
                       max_tokens |-> max_tokens.val,
                       temperature |-> temperature.val]]

----------------------------------------------------------------------------
(* The prompt builders and the completion client *)

SystemGenerate ==
    "You are an expert programmer assistant. Generate clean, efficient, "
    \o "and well-commented code based on user requests."
SystemExplain ==
    "You are a helpful code explainer. Provide clear, concise explanations of code."

ExplainTemperature == 300
DefaultGoal == "improve readability and efficiency"

\* An optional argument: None, or a str
None == <<>>
Some(s) == <<s>>
truthy(opt) == opt # None /\ opt[1] # ""

NoRequest == [model |-> "", messages |-> <<>>, max_tokens |-> 0, temperature |-> 0]

\* Mutant of generate_code_request: the default temperature, not the loaded one
generate_code_request_default_temperature(self, user_prompt, language) ==
    LET system_message ==
            IF truthy(language)
            THEN SystemGenerate \o " Generate code in " \o language[1] \o "."
            ELSE SystemGenerate
    IN [model |-> self.model,
        messages |-> <<[role |-> "system", content |-> system_message],
                       [role |-> "user", content |-> user_prompt]>>,
        max_tokens |-> self.max_tokens,
        temperature |-> DefaultTemperature]

\* generate_code up to the call: the arguments of chat.completions.create
generate_code_request(self, user_prompt, language) ==
    LET system_message ==
            IF truthy(language)
            THEN SystemGenerate \o " Generate code in " \o language[1] \o "."
            ELSE SystemGenerate
    IN [model |-> self.model,
        messages |-> <<[role |-> "system", content |-> system_message],
                       [role |-> "user", content |-> user_prompt]>>,
        max_tokens |-> self.max_tokens,
        temperature |-> self.temperature]

\* explain_code up to the call
explain_code_request(self, code) ==
    [model |-> self.model,
     messages |-> <<[role |-> "system", content |-> SystemExplain],
                    [role |-> "user", content |-> "Explain this code:\n\n" \o code]>>,
     max_tokens |-> self.max_tokens,
     temperature |-> ExplainTemperature]

complete_code_prompt(partial_code, context) ==
    IF context # ""
    THEN "Complete the following code:\n\n" \o partial_code
         \o "\n\nContext: " \o context
    ELSE "Complete the following code:\n\n" \o partial_code

refactor_code_prompt(code, goal) ==
    "Refactor the following code to " \o goal \o ":\n\n" \o code

\* Mutant of debug_code_prompt: the suffix is added whenever the argument is given
debug_code_prompt_always_suffix(code, error_message) ==
    "Debug and fix the following code:\n\n" \o code
    \o "\n\nError message: " \o error_message

debug_code_prompt(code, error_message) ==
    IF error_message # ""
    THEN "Debug and fix the following code:\n\n" \o code
         \o "\n\nError message: " \o error_message
    ELSE "Debug and fix the following code:\n\n" \o code

complete_code(self, partial_code, context) ==
    generate_code_request(self, complete_code_prompt(partial_code, context), None)

refactor_code(self, code, goal) ==
    generate_code_request(self, refactor_code_prompt(code, goal), None)

debug_code(self, code, error_message) ==
    generate_code_request(self, debug_code_prompt(code, error_message), None)

\* What the remote call does: raises a failure with a description, or returns
\* a response with a list of choices (possibly empty).
Responses ==
    { [raises |-> TRUE,  desc |-> "timeout", choices |-> <<>>],
      [raises |-> FALSE, desc |-> "", choices |-> <<>>],
      [raises |-> FALSE, desc |-> "",
       choices |-> <<"def rev(xs): return xs[::-1]", "second choice">>] }

NoResponse == [raises |-> FALSE, desc |-> "none", choices |-> <<>>]

\* response.choices[0].message.content inside the try block: the value, or
\* the description of the exception raised there
first_choice(resp) ==
    IF resp.raises THEN Raised(resp.desc)
    ELSE IF Len(resp.choices) = 0 THEN Raised("list index out of range")
    ELSE [raised |-> FALSE, msg |-> "", val |-> resp.choices[1]]

\* Mutant of generate_code_return: the label of explain_code
generate_code_return_explain_label(resp) ==
    LET r == first_choice(resp)
    IN IF r.raised THEN "Error explaining code: " \o r.msg ELSE r.val

generate_code_return(resp) ==
    LET r == first_choice(resp)
    IN IF r.raised THEN "Error generating code: " \o r.msg ELSE r.val

explain_code_return(resp) ==
    LET r == first_choice(resp)
    IN IF r.raised THEN "Error explaining code: " \o r.msg ELSE r.val

----------------------------------------------------------------------------
(* Inputs: command lines, environments, terminal lines *)

ArgvCases ==
    { <<"main.py">>,
      <<"main.py", "reverse", "a", "list">>,
      <<"main.py", "hi">> }

Key == "OPENAI_API_KEY" :> <<"s","k","-","t","e","s","t">>

EnvCases ==
    { <<>>,
      "OPENAI_API_KEY" :> <<>>,
      "MAX_TOKENS" :> <<"a","b","c">>,
      Key,
      Key @@ "MODEL_NAME" :> <<"g","p","t","-","3",".","5">>
          @@ "MAX_TOKENS" :> <<" ","2","5","6"," ">>
          @@ "TEMPERATURE" :> <<"0",".","2">>,
      Key @@ "MAX_TOKENS" :> <<"a","b","c">>,
      Key @@ "MAX_TOKENS" :> <<>>,
      Key @@ "TEMPERATURE" :> <<"h","o","t">>,
      Key @@ "MAX_TOKENS" :> <<"5","0">> @@ "TEMPERATURE" :> <<"1",".",".","5">> }

CommandTokens ==
    { <<"1">>, <<"g","e","n","e","r","a","t","e">>,
      <<"G","E","N","E","R","A","T","E">>,
      <<"2">>, <<"C","o","m","p","l","e","t","e">>,
      <<"3">>, <<"E","X","P","L","A","I","N">>,
      <<"4">>, <<"r","e","f","a","c","t","o","r">>,
      <<"5">>, <<" ","d","e","b","u","g">>,
      <<"6">>, <<"q","u","i","t">>, <<"E","x","i","t">>,
      <<"\t","Q","U","I","T"," ">>,
      <<"7">>, <<>>, <<"E","N","D">> }

PromptLines ==
    { <<"r","e","v","e","r","s","e"," ","a"," ","l","i","s","t">>,
      <<" ","e","x","i","t">> }

BodyLines ==
    { <<" "," ","q","u","i","t"," ">>,
      <<"x","E","N","D">>,
      <<"e","n","d">>,
      <<"E","N","D">>,
      <<" ","E","N","D","\t">> }

AuxLines ==
    { <<>>,
      <<" "," ">>,
      <<" ","q","u","i","t"," ">> }

----------------------------------------------------------------------------
(* main, direct_mode, and the set-up of interactive_mode *)

Rule == "============================================================"

Init ==
    /\ sys_argv \in ArgvCases
    /\ env \in EnvCases
    /\ pc = "main"
    /\ generator = NoGenerator
    /\ command = ""
    /\ prompt = ""
    /\ lines = <<>>
    /\ request = NoRequest
    /\ response = NoResponse
    /\ inFlight = 0
    /\ netCalls = 0
    /\ cmdCalls = 0
    /\ result = ""
    /\ printed = ""
    /\ inputLog = <<>>

\* The request leaves: one network call
Issue(req, callee) ==
    /\ request' = req
    /\ inFlight' = inFlight + 1
    /\ netCalls' = netCalls + 1
    /\ cmdCalls' = cmdCalls + 1
    /\ pc' = callee

main ==
    /\ pc = "main"
    /\ IF Len(sys_argv) > 1
       THEN /\ prompt' = join(" ", Tail(sys_argv))
            /\ pc' = "direct_mode"
            /\ UNCHANGED printed
       ELSE /\ pc' = "interactive_mode"
            /\ printed' = Rule
            /\ UNCHANGED prompt
    /\ UNCHANGED <<sys_argv, env, generator, command, lines, request, response,
                   inFlight, netCalls, cmdCalls, result, inputLog>>

direct_mode ==
    /\ pc = "direct_mode"
    /\ LET g == CodexGenerator_init(env)
       IN IF g.raised
          THEN /\ printed' = "\nError: " \o g.msg
               /\ pc' = "done"
               /\ UNCHANGED <<generator, request, inFlight, netCalls, cmdCalls>>
          ELSE /\ generator' = g.self
               /\ printed' = "\nGenerating code...\n"
               /\ Issue(generate_code_request(g.self, prompt, None), "generate_code")
    /\ UNCHANGED <<sys_argv, env, command, prompt, lines, response, result, inputLog>>

interactive_setup ==
    /\ pc = "interactive_mode"
    /\ LET g == CodexGenerator_init(env)
       IN IF g.raised
          THEN /\ printed' = "\nError: " \o g.msg
               /\ pc' = "done"
               /\ UNCHANGED generator
          ELSE /\ generator' = g.self
               /\ pc' = "AwaitingCommand"
               /\ UNCHANGED printed
    /\ UNCHANGED <<sys_argv, env, command, prompt, lines, request, response,
                   inFlight, netCalls, cmdCalls, result, inputLog>>

----------------------------------------------------------------------------
(* The loop of interactive_mode.  `printed` follows the print() calls. *)

\* Mutant of read_command: the token is trimmed but not lower-cased
read_command_no_lower(tok) == Str(strip(tok))

\* input("Enter command (1-6): ").strip().lower()
read_command(tok) == Str(lower(strip(tok)))

\* Mutant of Dispatch: an empty command line also quits
Dispatch_empty_quits(c) ==
    IF c \in {"6", "quit", "exit", ""} THEN "quit"
    ELSE IF c \in {"1", "generate"} THEN "generate"
    ELSE IF c \in {"2", "complete"} THEN "complete"
    ELSE IF c \in {"3", "explain"} THEN "explain"
    ELSE IF c \in {"4", "refactor"} THEN "refactor"
    ELSE IF c \in {"5", "debug"} THEN "debug"
    ELSE "invalid"

\* The if/elif chain over `command`
Dispatch(c) ==
    IF c \in {"6", "quit", "exit"} THEN "quit"
    ELSE IF c \in {"1", "generate"} THEN "generate"
    ELSE IF c \in {"2", "complete"} THEN "complete"
    ELSE IF c \in {"3", "explain"} THEN "explain"
    ELSE IF c \in {"4", "refactor"} THEN "refactor"
    ELSE IF c \in {"5", "debug"} THEN "debug"
    ELSE "invalid"

MultiLine == {"complete", "explain", "refactor", "debug"}

EnterText(shape) ==
    IF shape = "complete"
    THEN "\nEnter partial code (type 'END' on a new line when done):"
    ELSE IF shape = "explain"
    THEN "\nEnter code to explain (type 'END' on a new line when done):"
    ELSE IF shape = "refactor"
    THEN "\nEnter code to refactor (type 'END' on a new line when done):"
    ELSE "\nEnter code to debug (type 'END' on a new line when done):"

\* Mutant of is_end: the line is compared without trimming
is_end_untrimmed(line) == Str(line) = "END"

\* line.strip() == 'END'
is_end(line) == Str(strip(line)) = "END"

CommandQuit ==
    /\ pc = "AwaitingCommand"
    /\ \E tok \in CommandTokens :
          /\ Dispatch(read_command(tok)) = "quit"
          /\ command' = read_command(tok)
          /\ inputLog' = <<tok>>
    /\ cmdCalls' = 0
    /\ printed' = "\nThank you for using Codex Code Generator!"
    /\ pc' = "done"
    /\ UNCHANGED <<sys_argv, env, generator, prompt, lines, request, response,
                   inFlight, netCalls, result>>

CommandGenerate ==
    /\ pc = "AwaitingCommand"
    /\ netCalls < MaxCalls
    /\ \E tok \in CommandTokens :
          /\ Dispatch(read_command(tok)) = "generate"
          /\ command' = read_command(tok)
          /\ inputLog' = <<tok>>
    /\ cmdCalls' = 0
    /\ printed' = "\nDescribe the code you want to generate:"
    /\ pc' = "ReadPrompt"
    /\ UNCHANGED <<sys_argv, env, generator, prompt, lines, request, response,
                   inFlight, netCalls, result>>

\* Mutant of CommandMultiLine: the buffer is not emptied
CommandMultiLine_keeps_lines ==
    /\ pc = "AwaitingCommand"
    /\ netCalls < MaxCalls
    /\ \E tok \in CommandTokens :
          /\ Dispatch(read_command(tok)) \in MultiLine
          /\ command' = read_command(tok)
          /\ inputLog' = <<tok>>
          /\ printed' = EnterText(Dispatch(read_command(tok)))
    /\ cmdCalls' = 0
    /\ pc' = "CollectingMultilineInput"
    /\ UNCHANGED <<sys_argv, env, generator, prompt, lines, request, response,
                   inFlight, netCalls, result>>

CommandMultiLine ==
    /\ pc = "AwaitingCommand"
    /\ netCalls < MaxCalls
    /\ \E tok \in CommandTokens :
          /\ Dispatch(read_command(tok)) \in MultiLine
          /\ command' = read_command(tok)
          /\ inputLog' = <<tok>>
          /\ printed' = EnterText(Dispatch(read_command(tok)))
    /\ cmdCalls' = 0
    /\ lines' = <<>>
    /\ pc' = "CollectingMultilineInput"
    /\ UNCHANGED <<sys_argv, env, generator, prompt, request, response,
                   inFlight, netCalls, result>>

CommandInvalid ==
    /\ pc = "AwaitingCommand"
    /\ \E tok \in CommandTokens :
          /\ Dispatch(read_command(tok)) = "invalid"
          /\ command' = read_command(tok)
          /\ inputLog' = <<tok>>
    /\ cmdCalls' = 0
    /\ printed' = "Invalid command. Please enter a number between 1-6 or a valid command name."
    /\ pc' = "AwaitingCommand"
    /\ UNCHANGED <<sys_argv, env, generator, prompt, lines, request, response,
                   inFlight, netCalls, result>>

\* prompt = input("> ")
ReadPrompt ==
    /\ pc = "ReadPrompt"
    /\ \E line \in PromptLines :
          /\ prompt' = Str(line)
          /\ inputLog' = Append(inputLog, line)
    /\ pc' = "ReadLanguage"
    /\ UNCHANGED <<sys_argv, env, generator, command, lines, request, response,
                   inFlight, netCalls, cmdCalls, result, printed>>

\* language = input(...).strip(), then generator.generate_code(prompt, language or None)
ReadLanguage ==
    /\ pc = "ReadLanguage"
    /\ \E line \in AuxLines :
          LET language == Str(strip(line))
          IN /\ inputLog' = Append(inputLog, line)
             /\ Issue(generate_code_request(generator, prompt,
                          IF language # "" THEN Some(language) ELSE None),
                      "generate_code")
    /\ printed' = Rule
    /\ UNCHANGED <<sys_argv, env, generator, command, prompt, lines, response, result>>

\* One turn of the `while True` collection loop that appends the line
CollectLine ==
    /\ pc = "CollectingMultilineInput"
    /\ Len(lines) < MaxLines
    /\ \E line \in BodyLines :
          /\ ~is_end(line)
          /\ lines' = Append(lines, Str(line))
          /\ inputLog' = Append(inputLog, line)
    /\ UNCHANGED <<sys_argv, env, pc, generator, command, prompt, request, response,
                   inFlight, netCalls, cmdCalls, result, printed>>

\* Mutant of CollectEnd: every shape calls at END, before its auxiliary field
CollectEnd_calls_early ==
    /\ pc = "CollectingMultilineInput"
    /\ \E line \in BodyLines :
          /\ is_end(line)
          /\ inputLog' = Append(inputLog, line)
    /\ IF Dispatch(command) = "explain"
       THEN Issue(explain_code_request(generator, join("\n", lines)), "explain_code")
       ELSE Issue(debug_code(generator, join("\n", lines), ""), "generate_code")
    /\ printed' = Rule
    /\ UNCHANGED <<sys_argv, env, generator, command, prompt, lines, response, result>>

\* The turn that breaks out of the collection loop; explain has no auxiliary
\* field and calls at once
CollectEnd ==
    /\ pc = "CollectingMultilineInput"
    /\ \E line \in BodyLines :
          /\ is_end(line)
          /\ inputLog' = Append(inputLog, line)
    /\ IF Dispatch(command) = "explain"
       THEN /\ Issue(explain_code_request(generator, join("\n", lines)), "explain_code")
            /\ printed' = Rule
       ELSE /\ pc' = "AwaitingAuxiliaryField"
            /\ UNCHANGED <<request, inFlight, netCalls, cmdCalls, printed>>
    /\ UNCHANGED <<sys_argv, env, generator, command, prompt, lines, response, result>>

\* context / goal / error = input(...).strip(), then the shape's call
ReadAux ==
    /\ pc = "AwaitingAuxiliaryField"
    /\ \E line \in AuxLines :
          LET aux == Str(strip(line))
              code == join("\n", lines)
              shape == Dispatch(command)
          IN /\ inputLog' = Append(inputLog, line)
             /\ Issue(IF shape = "complete"
                      THEN complete_code(generator, code, aux)
                      ELSE IF shape = "refactor"
                      THEN refactor_code(generator, code,
                                         IF aux # "" THEN aux ELSE DefaultGoal)
                      ELSE debug_code(generator, code, aux),
                      "generate_code")
    /\ printed' = Rule
    /\ UNCHANGED <<sys_argv, env, generator, command, prompt, lines, response, result>>

\* The remote call inside generate_code ends; the result is printed
generate_code_returns ==
    /\ pc = "generate_code"
    /\ \E resp \in Responses :
          /\ response' = resp
          /\ result' = generate_code_return(resp)
          /\ printed' = generate_code_return(resp)
    /\ request' = NoRequest
    /\ inFlight' = inFlight - 1
    /\ pc' = IF Len(sys_argv) > 1 THEN "done" ELSE "AwaitingCommand"
    /\ inputLog' = <<>>
    /\ UNCHANGED <<sys_argv, env, generator, command, prompt, lines,
                   netCalls, cmdCalls>>

\* The remote call inside explain_code ends; the result is printed
explain_code_returns ==
    /\ pc = "explain_code"
    /\ \E resp \in Responses :
          /\ response' = resp
          /\ result' = explain_code_return(resp)
          /\ printed' = explain_code_return(resp)
    /\ request' = NoRequest
    /\ inFlight' = inFlight - 1
    /\ pc' = "AwaitingCommand"
    /\ inputLog' = <<>>
    /\ UNCHANGED <<sys_argv, env, generator, command, prompt, lines,
                   netCalls, cmdCalls>>

\* End-of-input at any input(): EOFError is not caught and ends the process
Reading ==
    {"AwaitingCommand", "ReadPrompt", "ReadLanguage",
     "CollectingMultilineInput", "AwaitingAuxiliaryField"}

EndOfInput ==
    /\ pc \in Reading
    /\ pc' = "EOFError"
    /\ UNCHANGED <<sys_argv, env, generator, command, prompt, lines, request,
                   response, inFlight, netCalls, cmdCalls, result, printed, inputLog>>

Next ==
    \/ main
    \/ direct_mode
    \/ interactive_setup
    \/ CommandQuit
    \/ CommandGenerate
    \/ CommandMultiLine
    \/ CommandInvalid
    \/ ReadPrompt
    \/ ReadLanguage
    \/ CollectLine
    \/ CollectEnd
    \/ ReadAux
    \/ generate_code_returns
    \/ explain_code_returns
    \/ EndOfInput

Spec == Init /\ [][Next]_vars

----------------------------------------------------------------------------
(* Vocabulary of the properties, stated apart from the operators above *)

Interactive == Len(sys_argv) = 1

MissingKey == "OPENAI_API_KEY" \notin DOMAIN env \/ env["OPENAI_API_KEY"] = <<>>

BeforeLoop == {"main", "direct_mode", "interactive_mode", "done"}

CallStates == {"generate_code", "explain_code"}

\* The shape a command in progress (or just completed) belongs to
CurrentShape == IF Interactive THEN Dispatch(command) ELSE "generate"

RemoteFailed == response.raises \/ response.choices = <<>>

FailureDescription ==
    IF response.raises THEN response.desc ELSE "list index out of range"

----------------------------------------------------------------------------
(* C1: whatever the remote call does (raise a failure, or answer with no    *)
(* choices), no shape propagates it: the operation returns "Error           *)
(* generating code: " plus the description (generate, complete, refactor,   *)
(* debug) or "Error explaining code: " plus the description (explain); the  *)
(* result is printed and the interactive loop is awaiting a command again.  *)
C1_FailureBecomesText ==
    (cmdCalls = 1 /\ inFlight = 0) =>
        /\ RemoteFailed =>
              result = (IF CurrentShape = "explain"
                        THEN "Error explaining code: "
                        ELSE "Error generating code: ") \o FailureDescription
        /\ (response.raises /\ response.desc = "timeout" /\ CurrentShape # "explain")
              => result = "Error generating code: timeout"
        /\ ~RemoteFailed => result = response.choices[1]
        /\ printed = result
        /\ pc \in (IF Interactive THEN {"AwaitingCommand", "EOFError"} ELSE {"done"})

C1_Witness ==
    /\ pc = "AwaitingCommand"
    /\ cmdCalls = 1
    /\ Dispatch(command) = "debug"
    /\ ~response.raises /\ response.choices = <<>>
    /\ printed = "Error generating code: list index out of range"

----------------------------------------------------------------------------
(* C2: with no API key configured (absent or empty), in both entry modes no *)
(* network call is ever made, no request is built, no command is read, the  *)
(* menu loop is never entered, and the entry point ends having reported the *)
(* credential error.                                                        *)
C2_MissingKeyNoCall ==
    MissingKey =>
        /\ netCalls = 0
        /\ inFlight = 0
        /\ request = NoRequest
        /\ inputLog = <<>>
        /\ pc \in BeforeLoop
        /\ pc = "done" => printed = "\nError: " \o MissingKeyMessage

C2_Witness ==
    /\ pc = "done"
    /\ Interactive
    /\ "OPENAI_API_KEY" \in DOMAIN env
    /\ env["OPENAI_API_KEY"] = <<>>
    /\ printed = "\nError: " \o MissingKeyMessage

----------------------------------------------------------------------------
(* C3: the interactive loop handles one command at a time: never two calls  *)
(* in flight; a call is issued only after all the inputs of its command     *)
(* were read; the request carries one system and one user message; a        *)
(* completed generate/complete/explain/refactor/debug command has issued    *)
(* exactly one call; quit and unrecognized commands have issued none.       *)
AllInputsRead ==
    LET shape == Dispatch(command)
        n == Len(inputLog)
    IN IF shape = "generate" THEN n = 3
       ELSE IF shape = "explain"
       THEN n = Len(lines) + 2 /\ is_end(inputLog[n])
       ELSE n = Len(lines) + 3 /\ is_end(inputLog[n - 1])

C3_OneCallPerCommand ==
    /\ inFlight \in {0, 1}
    /\ cmdCalls \in {0, 1}
    /\ inFlight = 1 <=> pc \in CallStates
    /\ inFlight = 1 =>
          /\ cmdCalls = 1
          /\ Len(request.messages) = 2
          /\ request.messages[1].role = "system"
          /\ request.messages[2].role = "user"
          /\ Interactive => AllInputsRead
    /\ pc \in Reading \ {"AwaitingCommand"} => cmdCalls = 0
    /\ (Interactive /\ pc = "AwaitingCommand") =>
          cmdCalls = (IF Dispatch(command) \in MultiLine \cup {"generate"} THEN 1 ELSE 0)
    /\ (Interactive /\ pc = "done") => cmdCalls = 0

C3_Witness ==
    /\ pc = "AwaitingCommand"
    /\ netCalls = 2
    /\ cmdCalls = 1
    /\ Dispatch(command) = "refactor"

----------------------------------------------------------------------------
(* Trimming, letter case and joining, restated for the properties *)

IsSpace(c) == c = " " \/ c = "\t"

SameLetter(c, l) ==
    c = l \/ \E m \in 1..Len(UpperSeq) : UpperSeq[m] = c /\ LowerSeq[m] = l

\* `line` is `word` surrounded by whitespace only
TrimmedIs(line, word) ==
    \E i \in 1..(Len(line) + 1) :
        LET j == i + Len(word) - 1
        IN /\ j <= Len(line)
           /\ SubSeq(line, i, j) = word
           /\ \A k \in 1..(i - 1) : IsSpace(line[k])
           /\ \A k \in (j + 1)..Len(line) : IsSpace(line[k])

\* `line` is `word` in some letter case, surrounded by whitespace only
TrimmedLowerIs(line, word) ==
    \E i \in 1..(Len(line) + 1) :
        LET j == i + Len(word) - 1
        IN /\ j <= Len(line)
           /\ \A k \in 1..Len(word) : SameLetter(line[i + k - 1], word[k])
           /\ \A k \in 1..(i - 1) : IsSpace(line[k])
           /\ \A k \in (j + 1)..Len(line) : IsSpace(line[k])

RECURSIVE NewlineJoined(_)
NewlineJoined(ls) ==
    IF ls = <<>> THEN ""
    ELSE IF Len(ls) = 1 THEN ls[1]
    ELSE NewlineJoined(SubSeq(ls, 1, Len(ls) - 1)) \o "\n" \o ls[Len(ls)]

EndWord == <<"E","N","D">>

QuitWords == { <<"6">>, <<"q","u","i","t">>, <<"e","x","i","t">> }

ShapeWords(shape) ==
    CASE shape = "generate" -> { <<"1">>, <<"g","e","n","e","r","a","t","e">> }
      [] shape = "complete" -> { <<"2">>, <<"c","o","m","p","l","e","t","e">> }
      [] shape = "explain"  -> { <<"3">>, <<"e","x","p","l","a","i","n">> }
      [] shape = "refactor" -> { <<"4">>, <<"r","e","f","a","c","t","o","r">> }
      [] shape = "debug"    -> { <<"5">>, <<"d","e","b","u","g">> }
      [] shape = "quit"     -> QuitWords

ExpectedShape(tok) ==
    IF \E shape \in MultiLine \cup {"generate", "quit"} :
          \E w \in ShapeWords(shape) : TrimmedLowerIs(tok, w)
    THEN CHOOSE shape \in MultiLine \cup {"generate", "quit"} :
          \E w \in ShapeWords(shape) : TrimmedLowerIs(tok, w)
    ELSE "invalid"

\* ExpectedShape over the tokens typed in this model
ShapeOfToken == [tok \in CommandTokens |-> ExpectedShape(tok)]

LoopStates == Reading \cup CallStates

----------------------------------------------------------------------------
(* C4: the interactive loop is left only by the command token 6, quit or    *)
(* exit (trimmed, any letter case) read at the command prompt, or by        *)
(* end-of-input; nothing typed as body text or auxiliary field, and no      *)
(* result of the remote call, ends it.                                      *)
C4_LoopEndsOnlyOnQuitOrEOF ==
    [][ (Interactive /\ pc \in LoopStates /\ pc' \notin LoopStates) =>
           \/ pc' = "EOFError"
           \/ /\ pc = "AwaitingCommand"
              /\ pc' = "done"
              /\ Len(inputLog') = 1
              /\ \E w \in QuitWords : TrimmedLowerIs(inputLog'[1], w) ]_vars

C4_Witness ==
    /\ Interactive
    /\ pc = "AwaitingCommand"
    /\ netCalls = 2
    /\ RemoteFailed
    /\ Len(lines) = 2
    /\ lines[1] = "  quit "
    /\ prompt = " exit"

----------------------------------------------------------------------------
(* C5: dispatch depends only on the trimmed, lower-cased command token: a   *)
(* shape's digit and its name in any letter case route to that shape; any   *)
(* other token prints the invalid-command error and leaves the loop         *)
(* awaiting a command, with no body text read and no call issued.           *)
C5_Dispatch ==
    inputLog # <<>> =>
        LET shape == ShapeOfToken[inputLog[1]]
        IN /\ Dispatch(command) = shape
           /\ shape = "generate" =>
                 pc \in {"ReadPrompt", "ReadLanguage", "generate_code", "EOFError"}
           /\ shape \in {"complete", "refactor", "debug"} =>
                 pc \in {"CollectingMultilineInput", "AwaitingAuxiliaryField",
                         "generate_code", "EOFError"}
           /\ shape = "explain" =>
                 pc \in {"CollectingMultilineInput", "explain_code", "EOFError"}
           /\ shape = "quit" => pc = "done"
           /\ shape = "invalid" =>
                 /\ pc \in {"AwaitingCommand", "EOFError"}
                 /\ Len(inputLog) = 1
                 /\ cmdCalls = 0
                 /\ printed = "Invalid command. Please enter a number between 1-6 or a valid command name."

C5_Witness ==
    /\ inputLog = << <<"G","E","N","E","R","A","T","E">> >>
    /\ command = "generate"
    /\ pc = "ReadPrompt"

----------------------------------------------------------------------------
(* C6: a multi-line command collects lines up to the first line whose       *)
(* trimmed content is exactly END; the body is the lines before it,         *)
(* untrimmed and in order, joined by newlines; the END line is not part of  *)
(* the body; an immediate END gives the empty body, forwarded as it is.     *)
C6_BodyIsLinesBeforeEnd ==
    (Interactive /\ inputLog # <<>> /\ Dispatch(command) \in MultiLine) =>
        LET n == Len(lines)
        IN /\ Len(inputLog) >= n + 1
           /\ \A i \in 1..n :
                 /\ lines[i] = Str(inputLog[i + 1])
                 /\ ~TrimmedIs(inputLog[i + 1], EndWord)
           /\ pc = "CollectingMultilineInput" => Len(inputLog) = n + 1
           /\ pc \in {"AwaitingAuxiliaryField"} \cup CallStates =>
                 /\ Len(inputLog) >= n + 2
                 /\ TrimmedIs(inputLog[n + 2], EndWord)
           /\ pc = "explain_code" =>
                 request.messages[2].content =
                     "Explain this code:\n\n" \o NewlineJoined(lines)
           /\ (pc = "generate_code" /\ Dispatch(command) = "debug"
                 /\ inputLog[Len(inputLog)] = <<>>) =>
                 request.messages[2].content =
                     "Debug and fix the following code:\n\n" \o NewlineJoined(lines)

C6_Witness ==
    /\ pc = "explain_code"
    /\ Len(inputLog) = 4
    /\ inputLog[2] = <<" "," ","q","u","i","t"," ">>
    /\ inputLog[3] = <<"x","E","N","D">>
    /\ inputLog[4] = <<" ","E","N","D","\t">>
    /\ request.messages[2].content = "Explain this code:\n\n  quit \nxEND"

----------------------------------------------------------------------------
(* What a command's request should be, from the terminal lines of that      *)
(* command and the environment alone                                        *)

\* `line` without its surrounding whitespace
TrimmedOf(line) ==
    LET Cuts == { p \in (1..(Len(line) + 1)) \X (0..Len(line)) :
                    /\ p[2] >= p[1] - 1
                    /\ \A k \in 1..(p[1] - 1) : IsSpace(line[k])
                    /\ \A k \in (p[2] + 1)..Len(line) : IsSpace(line[k])
                    /\ p[2] >= p[1] =>
                          ~IsSpace(line[p[1]]) /\ ~IsSpace(line[p[2]]) }
        cut == CHOOSE p \in Cuts : TRUE
    IN SubSeq(line, cut[1], cut[2])

\* TrimmedOf over the auxiliary fields typed in this model, flattened
TrimmedAux == [line \in AuxLines |-> Str(TrimmedOf(line))]

LoggedShape == IF Interactive THEN ShapeOfToken[inputLog[1]] ELSE "generate"

\* The body lines of the command in flight: after the token, before END
LoggedBody ==
    LET last == IF LoggedShape = "explain" THEN Len(inputLog) - 1
                ELSE Len(inputLog) - 2
    IN NewlineJoined([i \in 1..(last - 1) |-> Str(inputLog[i + 1])])

\* The auxiliary field of the command in flight, trimmed
LoggedAux == TrimmedAux[inputLog[Len(inputLog)]]

ExpectedSystem ==
    IF LoggedShape = "explain" THEN SystemExplain
    ELSE IF Interactive /\ LoggedShape = "generate" /\ LoggedAux # ""
    THEN SystemGenerate \o " Generate code in " \o LoggedAux \o "."
    ELSE SystemGenerate

ExpectedUser ==
    CASE ~Interactive -> NewlineJoined(<<prompt>>)
      [] Interactive /\ LoggedShape = "generate" -> Str(inputLog[2])
      [] Interactive /\ LoggedShape = "complete" ->
            "Complete the following code:\n\n" \o LoggedBody
            \o (IF LoggedAux # "" THEN "\n\nContext: " \o LoggedAux ELSE "")
      [] Interactive /\ LoggedShape = "explain" ->
            "Explain this code:\n\n" \o LoggedBody
      [] Interactive /\ LoggedShape = "refactor" ->
            "Refactor the following code to "
            \o (IF LoggedAux # "" THEN LoggedAux
                ELSE "improve readability and efficiency")
            \o ":\n\n" \o LoggedBody
      [] Interactive /\ LoggedShape = "debug" ->
            "Debug and fix the following code:\n\n" \o LoggedBody
            \o (IF LoggedAux # "" THEN "\n\nError message: " \o LoggedAux ELSE "")

\* A set value that is no number: no digit at all, or more than one point
NotNumeric(v) ==
    \/ \A i \in 1..Len(v) : v[i] \notin Digits
    \/ Cardinality({i \in 1..Len(v) : v[i] = "."}) > 1

BadNumeric ==
    /\ ~MissingKey
    /\ \/ "MAX_TOKENS" \in DOMAIN env /\ NotNumeric(env["MAX_TOKENS"])
       \/ "TEMPERATURE" \in DOMAIN env /\ NotNumeric(env["TEMPERATURE"])

\* The configuration the environment asks for (temperature in thousandths)
ExpectedConfig ==
    IF "MODEL_NAME" \in DOMAIN env
    THEN [api_key |-> "sk-test", model |-> "gpt-3.5",
          max_tokens |-> 256, temperature |-> 200]
    ELSE [api_key |-> "sk-test", model |-> "gpt-4",
          max_tokens |-> 1000, temperature |-> 700]

----------------------------------------------------------------------------
(* C7: for every shape the user instruction sent is the documented template *)
(* by literal concatenation: the description verbatim (generate), the       *)
(* completion, explanation, refactoring and debugging templates around the  *)
(* body, the optional suffix left out exactly when the optional field is    *)
(* empty, the goal defaulting when empty; the system instruction gains the  *)
(* language sentence only for a non-empty language.                         *)
C7_Templates ==
    inFlight = 1 =>
        /\ request.messages[1].content = ExpectedSystem
        /\ request.messages[2].content = ExpectedUser
        /\ ~Interactive => request.messages[2].content \in {"reverse a list", "hi"}

C7_Witness ==
    /\ pc = "generate_code"
    /\ Interactive
    /\ Dispatch(command) = "debug"
    /\ inputLog[Len(inputLog)] = <<" "," ">>
    /\ request.messages[2].content = "Debug and fix the following code:\n\nend"

----------------------------------------------------------------------------
(* C8 as stated: every shape's request carries the configured model, the    *)
(* configured max output length and the configured sampling temperature.    *)
C8_Original ==
    inFlight = 1 =>
        /\ request.model = ExpectedConfig.model
        /\ request.max_tokens = ExpectedConfig.max_tokens
        /\ request.temperature = ExpectedConfig.temperature

(* C8 as amended: every shape's request carries the configured model and    *)
(* max output length; generate, complete, refactor and debug carry the      *)
(* configured temperature, and explain always carries the temperature 0.3.  *)
C8_ExplainHasOwnTemperature ==
    inFlight = 1 =>
        /\ request.model = ExpectedConfig.model
        /\ request.max_tokens = ExpectedConfig.max_tokens
        /\ request.temperature =
              (IF LoggedShape = "explain" THEN 300 ELSE ExpectedConfig.temperature)

C8_Witness ==
    /\ pc = "explain_code"
    /\ "TEMPERATURE" \in DOMAIN env
    /\ generator.temperature = 200
    /\ request.temperature = 300
    /\ request.model = "gpt-3.5"

----------------------------------------------------------------------------
(* C9: with the key present and MAX_TOKENS or TEMPERATURE set to a value    *)
(* that is no number, loading fails instead of falling back to the default: *)
(* in both modes the failure is printed, no call is made, no command is     *)
(* read, and the entry point ends normally.                                 *)
C9_BadNumberFailsFast ==
    BadNumeric =>
        /\ netCalls = 0
        /\ inFlight = 0
        /\ inputLog = <<>>
        /\ generator = NoGenerator
        /\ pc \in BeforeLoop
        /\ pc = "done" =>
              printed =
                 (IF "MAX_TOKENS" \in DOMAIN env /\ NotNumeric(env["MAX_TOKENS"])
                  THEN "\nError: invalid literal for int() with base 10: '"
                       \o Str(env["MAX_TOKENS"]) \o "'"
                  ELSE "\nError: could not convert string to float: '"
                       \o Str(env["TEMPERATURE"]) \o "'")

C9_Witness ==
    /\ pc = "done"
    /\ Interactive
    /\ netCalls = 0
    /\ printed = "\nError: could not convert string to float: 'hot'"

----------------------------------------------------------------------------
(* C10: nothing but the loaded configuration is carried across commands:    *)
(* once loaded the configuration keeps the value the environment gave it,   *)
(* and the request of a command is determined by that command's own inputs  *)
(* and the configuration, whatever earlier commands left behind.            *)
C10_OnlyConfigCarried ==
    /\ (~MissingKey /\ ~BadNumeric
          /\ pc \notin {"main", "direct_mode", "interactive_mode"}) =>
          generator = ExpectedConfig
    /\ inFlight = 1 =>
          request =
             [model |-> ExpectedConfig.model,
              messages |-> <<[role |-> "system", content |-> ExpectedSystem],
                             [role |-> "user", content |-> ExpectedUser]>>,
              max_tokens |-> ExpectedConfig.max_tokens,
              temperature |-> IF pc = "explain_code" THEN ExplainTemperature
                              ELSE ExpectedConfig.temperature]

C10_Witness ==
    /\ Interactive
    /\ pc = "generate_code"
    /\ netCalls = 2
    /\ Dispatch(command) = "generate"
    /\ Len(lines) = 2
    /\ result = "Error explaining code: timeout"

====
